---- MODULE Spec2Model ----
(***************************************************************************)
(* Model of the Best Buy scrapers: scrape_bestbuy_product                  *)
(* (src/n8n_main_scraper.py) and scrape_bestbuy_first_product              *)
(* (src/n8n_list_scraper.py).  One call runs from its URL validation to    *)
(* its return; every call on the browser (selenium) or on the parser       *)
(* (BeautifulSoup constructor) is one step whose outcome, a value or an    *)
(* exception, is chosen by the environment.                                *)
(*                                                                         *)
(* A Python str is a sequence of tokens.  A token is one character, or a   *)
(* literal the code searches for ("bestbuy", "product", "UPC", ...)        *)
(* kept whole; the other tokens of the alphabet never spell such a literal *)
(* between them, so `x in s` is the search for a contiguous run of tokens. *)
(***************************************************************************)
EXTENDS Integers, Sequences, FiniteSets, TLC

(* ------------------------------------------------------------------ *)
(* bounds                                                              *)
(* ------------------------------------------------------------------ *)

\* the most elements find_elements returns for one spec selector
MaxElems == 2
\* how many requests the server handles at once
NumRequests == 2
\* how many operations a request issues on its driver before it stops
MaxOps == 2

(* ------------------------------------------------------------------ *)
(* str operations                                                      *)
(* ------------------------------------------------------------------ *)

\* len() of one token: a literal counts its characters
TokLen(t) ==
    CASE t = "bestbuy" -> 7
      [] t = ".com" -> 4
      [] t = "x{198}" -> 198
      [] t = "product" -> 7
      [] t = "searchpage" -> 10
      [] t = "site" -> 4
      [] t = "http" -> 4
      [] t = "s:" -> 2
      [] t = "www." -> 4
      [] OTHER -> 1

RECURSIVE StrLen(_)
\* len(s)
StrLen(s) == IF s = <<>> THEN 0 ELSE TokLen(Head(s)) + StrLen(Tail(s))

\* s[i:].startswith(sub), i counted from 1
StartsWithAt(s, sub, i) ==
    /\ i + Len(sub) - 1 <= Len(s)
    /\ \A k \in 1..Len(sub) : s[i + k - 1] = sub[k]

\* s.startswith(sub)
StartsWith(s, sub) == StartsWithAt(s, sub, 1)

\* sub in s
Contains(s, sub) == \E i \in 1..(Len(s) - Len(sub) + 1) : StartsWithAt(s, sub, i)

\* the positions of token c in s
Positions(s, c) == {i \in 1..Len(s) : s[i] = c}

SetMax(S) == CHOOSE x \in S : \A y \in S : y <= x
SetMin(S) == CHOOSE x \in S : \A y \in S : x <= y

\* s.split(c)[-1]
SplitLast(s, c) ==
    IF Positions(s, c) = {} THEN s
    ELSE SubSeq(s, SetMax(Positions(s, c)) + 1, Len(s))

\* s.split(c)[0]
SplitFirst(s, c) ==
    IF Positions(s, c) = {} THEN s
    ELSE SubSeq(s, 1, SetMin(Positions(s, c)) - 1)

\* str.lower() of one token
LowerTok(t) ==
    CASE t = "In" -> "in"
      [] t = "Stock" -> "stock"
      [] t = "STOCK" -> "stock"
      [] t = "Out" -> "out"
      [] t = "OUT" -> "out"
      [] t = "OF" -> "of"
      [] t = "UPC" -> "upc"
      [] t = "GTIN" -> "gtin"
      [] t = "EAN" -> "ean"
      [] t = "SKU" -> "sku"
      [] t = "Model" -> "model"
      [] t = "Universal" -> "universal"
      [] t = "Product" -> "product"
      [] t = "Code" -> "code"
      [] t = "A" -> "a"
      [] t = "B" -> "b"
      [] t = "S" -> "s"
      [] t = "V" -> "v"
      [] t = "W" -> "w"
      [] t = "X" -> "x"
      [] OTHER -> t

\* s.lower()
Lower(s) == [i \in 1..Len(s) |-> LowerTok(s[i])]

(* ------------------------------------------------------------------ *)
(* the arguments the calls are given                                   *)
(* ------------------------------------------------------------------ *)

\* base_url of the listing scraper, 'https://www.bestbuy.com'
base_url == <<"http", "s:", "/", "/", "www.", "bestbuy", ".com">>

\* 'bestbuy.com'
BestBuyCom == <<"bestbuy", ".com">>

ProductPath == <<"/", "product", "/">>
SitePath == <<"/", "site", "/">>

Str(s) == [isStr |-> TRUE, s |-> s]
\* an argument that is no str (None, a number, a list)
NotAStr == [isStr |-> FALSE, s |-> <<>>]

\* product page URLs: a plain one, a three-character last part, a trailing
\* slash, a query string, a query string holding a slash, a query string
\* right after the path marker
ProductUrls ==
    { base_url \o ProductPath \o <<"a", "b", "c", "d">>,
      base_url \o ProductPath \o <<"a", "b", "c">>,
      base_url \o ProductPath \o <<"w", "/", "a", "b", "c", "d", "/">>,
      base_url \o ProductPath \o <<"a", "b", "c", "d", "?", "q">>,
      base_url \o ProductPath \o <<"a", "b", "c", "d", "?", "q", "/", "r", "s", "t", "u">>,
      base_url \o ProductPath \o <<"?", "q">> }

\* search and listing URLs
ListingUrls ==
    { base_url \o SitePath \o <<"searchpage", "?", "q">>,
      base_url \o <<"/", "searchpage">>,
      base_url \o SitePath \o <<"a">> }

\* arguments that fail one test or the other
OtherUrls ==
    { <<>>,
      base_url,
      <<"/", "product", "/", "a", "b", "c", "d">>,
      <<"/", "site", "/", "searchpage">>,
      base_url \o <<"/", "product">>,
      <<"w">> \o SitePath \o BestBuyCom \o ProductPath }

Inputs == {NotAStr} \cup {Str(s) : s \in ProductUrls \cup ListingUrls \cup OtherUrls}

\* ValidProductUrl without its test for '/product/'
ValidProductUrl_DomainOnly(u) == Contains(u, BestBuyCom)

\* the test of line 66 (negated): the URL goes on to the browser
ValidProductUrl(u) ==
    /\ Contains(u, BestBuyCom)
    /\ Contains(u, ProductPath)

\* the test of line 52 (negated)
ValidListingUrl(u) ==
    /\ Contains(u, BestBuyCom)
    /\ (Contains(u, <<"searchpage">>) \/ Contains(u, SitePath))

(* ------------------------------------------------------------------ *)
(* character classes and the regular expressions of the extractors     *)
(* ------------------------------------------------------------------ *)

Min(a, b) == IF a <= b THEN a ELSE b

Digit == {"0", "1", "2", "3", "4", "5", "6", "7", "8", "9"}
\* the tokens that are neither letters nor digits
Punct == {" ", "\n", ":", "/", "-", "$", ".", "?", ","}

\* a character class: the tokens of `set`, or with neg the tokens outside it
InClass(t, class) == (t \in class.set) # class.neg
\* [0-9]
IsDigit == [neg |-> FALSE, set |-> Digit]
\* \s
IsSpace == [neg |-> FALSE, set |-> {" ", "\n"}]
\* [\s:] and [:\s]
IsSpaceOrColon == [neg |-> FALSE, set |-> {" ", "\n", ":"}]
\* [^0-9]
IsNonDigit == [neg |-> TRUE, set |-> Digit]
\* [A-Z0-9] under re.IGNORECASE: a digit, a letter, or a word of letters
IsAlnum == [neg |-> TRUE, set |-> Punct]

\* how many tokens from position i on are all of the class
RunLen(s, i, class) ==
    SetMin({j \in i..(Len(s) + 1) : j = Len(s) + 1 \/ ~InClass(s[j], class)}) - i

\* str.strip(): leading and trailing whitespace removed
Strip(s) ==
    LET keep == {i \in 1..Len(s) : ~InClass(s[i], IsSpace)}
    IN IF keep = {} THEN <<>> ELSE SubSeq(s, SetMin(keep), SetMax(keep))

\* re.search(label [gap]* ([0-9]{lo,hi}), s).group(1), <<>> when no match:
\* the leftmost label followed by the gap and by at least lo digits; the
\* group takes at most hi of them
LabeledNumber(s, labels, gap, lo, hi) ==
    LET AfterGap(i, l) == i + Len(l) + RunLen(s, i + Len(l), gap)
        hits == {i \in 1..Len(s) : \E l \in labels :
                    /\ StartsWithAt(s, l, i)
                    /\ RunLen(s, AfterGap(i, l), IsDigit) >= lo}
    IN IF hits = {} THEN <<>>
       ELSE LET i == SetMin(hits)
                l == CHOOSE l \in labels :
                        /\ StartsWithAt(s, l, i)
                        /\ RunLen(s, AfterGap(i, l), IsDigit) >= lo
                j == AfterGap(i, l)
            IN SubSeq(s, j, j + Min(RunLen(s, j, IsDigit), hi) - 1)

\* re.search(([0-9]{lo,hi}), s).group(1), <<>> when no match
BareNumber(s, lo, hi) ==
    LET hits == {i \in 1..Len(s) : RunLen(s, i, IsDigit) >= lo}
    IN IF hits = {} THEN <<>>
       ELSE LET i == SetMin(hits)
            IN SubSeq(s, i, i + Min(RunLen(s, i, IsDigit), hi) - 1)

UpcLabel == <<"UPC">>
UpcSpelled == <<"Universal", " ", "Product", " ", "Code">>

\* the digit counts of the patterns
UpcMin == 8
UpcMax == 14
UpcLongMin == 11

\* len(candidate) >= lo and len(candidate) <= hi, on a match
Accepted(c, lo, hi) == c # <<>> /\ Len(c) >= lo /\ Len(c) <= hi

\* the list `patterns` of _extract_upc, applied to text s
Pattern(k, s) ==
    CASE k = 1 -> LabeledNumber(s, {UpcLabel}, IsSpaceOrColon, UpcMin, UpcMax)
      [] k = 2 -> LabeledNumber(s, {<<"GTIN">>, <<"EAN">>}, IsSpaceOrColon, UpcMin, UpcMax)
      [] k = 3 -> LabeledNumber(s, {UpcSpelled}, IsSpaceOrColon, UpcMin, UpcMax)
      [] k = 4 -> LabeledNumber(s, {UpcLabel}, IsNonDigit, UpcLongMin, UpcMax)

NumPatterns == 4

\* for pattern in patterns: the first accepted match in s, <<>> when none
FirstPattern(s) ==
    LET ok == {k \in 1..NumPatterns : Accepted(Pattern(k, s), UpcMin, UpcMax)}
    IN IF ok = {} THEN <<>> ELSE Pattern(SetMin(ok), s)

\* re.search(r'Model[:\s]*([A-Z0-9]+/[A-Z0-9]+)(?:\s|SKU)', s, I).group(1):
\* the second run gives tokens back until a space or SKU follows it
ModelSlashed(s) ==
    LET J(i) == i + 1 + RunLen(s, i + 1, IsSpaceOrColon)
        A(i) == RunLen(s, J(i), IsAlnum)
        K(i) == J(i) + A(i) + 1
        Ends(i) == {b \in 1..RunLen(s, K(i), IsAlnum) :
                      /\ K(i) + b <= Len(s)
                      /\ (InClass(s[K(i) + b], IsSpace) \/ s[K(i) + b] = "SKU")}
        hits == {i \in 1..Len(s) :
                    /\ s[i] = "Model"
                    /\ A(i) >= 1
                    /\ J(i) + A(i) <= Len(s)
                    /\ s[J(i) + A(i)] = "/"
                    /\ Ends(i) # {}}
    IN IF hits = {} THEN <<>>
       ELSE LET i == SetMin(hits)
            IN SubSeq(s, J(i), K(i) + SetMax(Ends(i)) - 1)

\* re.search(r'Model[:\s]*([A-Z0-9]+)', s, I).group(1)
ModelPlain(s) ==
    LET J(i) == i + 1 + RunLen(s, i + 1, IsSpaceOrColon)
        hits == {i \in 1..Len(s) : s[i] = "Model" /\ RunLen(s, J(i), IsAlnum) >= 1}
    IN IF hits = {} THEN <<>>
       ELSE LET i == SetMin(hits)
            IN SubSeq(s, J(i), J(i) + RunLen(s, J(i), IsAlnum) - 1)

RECURSIVE Split(_, _)
\* s.split(c)
Split(s, c) ==
    IF Positions(s, c) = {} THEN <<s>>
    ELSE LET i == SetMin(Positions(s, c))
         IN <<SubSeq(s, 1, i - 1)>> \o Split(SubSeq(s, i + 1, Len(s)), c)

RECURSIVE Join(_, _)
\* c.join(parts)
Join(parts, c) ==
    IF parts = <<>> THEN <<>>
    ELSE IF Len(parts) = 1 THEN parts[1]
    ELSE parts[1] \o <<c>> \o Join(Tail(parts), c)

RECURSIVE Concat(_)
\* ''.join(parts)
Concat(parts) == IF parts = <<>> THEN <<>> ELSE Head(parts) \o Concat(Tail(parts))

(* ------------------------------------------------------------------ *)
(* the parsed document (soup) of a product page                        *)
(* ------------------------------------------------------------------ *)

(* The soup is the sequence of its elements in document order.  An element
   has a tag, a class attribute (a str, <<>> when absent), its own text,
   and by kind: src and data-src (img), the rows of a specification
   section, each row the texts of the cells row.find_all(['td','div'])
   returns, and the texts of the anchors of a breadcrumb nav. *)
Elem(tag, cls, text) ==
    [tag |-> tag, cls |-> cls, text |-> text, src |-> <<>>, data_src |-> <<>>,
     rows |-> <<>>, links |-> <<>>]
Img(cls, src, data_src) == [Elem("img", cls, <<>>) EXCEPT !.src = src, !.data_src = data_src]
Section(tag, cls, text, rows) == [Elem(tag, cls, text) EXCEPT !.rows = rows]
Nav(cls, links) == [Elem("nav", cls, <<>>) EXCEPT !.links = links]

\* element.get_text(): the text nodes under the element, joined
ElemText(e) ==
    e.text \o Concat([i \in 1..Len(e.rows) |-> Concat(e.rows[i])]) \o Concat(e.links)

\* soup.get_text()
PageText(soup) == Concat([i \in 1..Len(soup) |-> ElemText(soup[i])])

\* soup.find(tags, class_=lambda x: x and marker in x): the index of the
\* first such element, 0 for None
FindFirst(soup, tags, marker) ==
    LET hits == {i \in 1..Len(soup) : soup[i].tag \in tags /\ Contains(soup[i].cls, marker)}
    IN IF hits = {} THEN 0 ELSE SetMin(hits)

\* soup.find_all(tags, class_=lambda x: x and (m in x or ...)): the elements
\* whose class holds one of the markers, in document order
FindAll(soup, tags, markers) ==
    SelectSeq(soup, LAMBDA e : e.tag \in tags /\ \E m \in markers : Contains(e.cls, m))

\* elem.get_text(strip=True) of the first element tags/marker, `default`
\* when there is none or (emptyIsDefault) its text is empty
TextOf(soup, tags, marker, default, emptyIsDefault) ==
    LET i == FindFirst(soup, tags, marker)
    IN IF i = 0 THEN default
       ELSE IF emptyIsDefault /\ Strip(ElemText(soup[i])) = <<>> THEN default
       ELSE Strip(ElemText(soup[i]))

\* Take without the cut: the whole of s
Take_All(s, n) == s

RECURSIVE Take(_, _)
\* s[:n], n counted in characters
Take(s, n) ==
    IF s = <<>> \/ TokLen(Head(s)) > n THEN <<>>
    ELSE <<Head(s)>> \o Take(Tail(s), n - TokLen(Head(s)))

MaxDescription == 200
MaxImages == 10
MaxSpecs == 5

InStock == <<"in", " ", "stock">>
OutOfStock == <<"out", " ", "of", " ", "stock">>

\* Availability with the label that stands first in the text
Availability_FirstMatch(page_text, in_stock, availability) ==
    LET text == Lower(page_text)
        At(sub) == SetMin({i \in 1..(Len(text) + 1) :
                              i = Len(text) + 1 \/ StartsWithAt(text, sub, i)})
    IN IF Contains(text, InStock) /\ At(InStock) < At(OutOfStock)
       THEN [in_stock |-> TRUE, availability |-> <<"In Stock">>]
       ELSE IF Contains(text, OutOfStock)
       THEN [in_stock |-> FALSE, availability |-> <<"Out of Stock">>]
       ELSE [in_stock |-> in_stock, availability |-> availability]

\* lines 195-201: the two stock fields, given the ones the result has
Availability(page_text, in_stock, availability) ==
    IF Contains(Lower(page_text), InStock)
    THEN [in_stock |-> TRUE, availability |-> <<"In Stock">>]
    ELSE IF Contains(Lower(page_text), OutOfStock)
    THEN [in_stock |-> FALSE, availability |-> <<"Out of Stock">>]
    ELSE [in_stock |-> in_stock, availability |-> availability]

\* lines 186-193: the model found in the page text, <<>> for no match
ModelMatch(page_text) ==
    IF ModelSlashed(page_text) # <<>> THEN ModelSlashed(page_text)
    ELSE ModelPlain(page_text)

RECURSIVE AddImages(_, _)
\* the loop of _extract_images over the img elements it is given
AddImages(imgs, images) ==
    IF imgs = <<>> THEN images
    ELSE LET img == Head(imgs)
             src == IF img.src # <<>> THEN img.src ELSE img.data_src
             seen == \E k \in 1..Len(images) : images[k] = src
         IN AddImages(Tail(imgs),
                IF src # <<>> /\ Contains(src, <<"bestbuy">>) /\ ~seen
                THEN Append(images, src) ELSE images)

_extract_images(soup) ==
    LET img_elements == FindAll(soup, {"img"}, {<<"product">>})
    IN AddImages(SubSeq(img_elements, 1, Min(Len(img_elements), MaxImages)), <<>>)

RECURSIVE Dedup(_, _)
\* the loop of _extract_categories: the stripped, non-empty, new texts
Dedup(items, categories) ==
    IF items = <<>> THEN categories
    ELSE LET text == Strip(Head(items))
             seen == \E k \in 1..Len(categories) : categories[k] = text
         IN Dedup(Tail(items),
                IF text # <<>> /\ ~seen THEN Append(categories, text) ELSE categories)

_extract_categories(soup) ==
    LET i == FindFirst(soup, {"nav"}, <<"breadcrumb">>)
    IN IF i = 0 THEN <<>> ELSE Dedup(soup[i].links, <<>>)

RECURSIVE SpecRows(_)
\* the loop of _extract_specifications over the rows it is given
SpecRows(rows) ==
    IF rows = <<>> THEN <<>>
    ELSE LET cells == Head(rows)
             key == Strip(cells[1])
             value == Strip(cells[2])
         IN (IF Len(cells) >= 2 /\ key # <<>> /\ value # <<>>
             THEN <<[key |-> key, value |-> value]>> ELSE <<>>)
            \o SpecRows(Tail(rows))

NoSpecsNote == [note |-> <<"No specifications found">>]

_extract_specifications(soup) ==
    LET i == FindFirst(soup, {"div"}, <<"spec", "ification">>)
        specs == IF i = 0 THEN <<>>
                 ELSE SpecRows(SubSeq(soup[i].rows, 1, Min(Len(soup[i].rows), MaxSpecs)))
    IN IF specs = <<>> THEN <<NoSpecsNote>> ELSE specs

(* ------------------------------------------------------------------ *)
(* UPC extraction                                                      *)
(* ------------------------------------------------------------------ *)

(* What driver.find_elements hands back: ok = FALSE when the call raises,
   else the elements; an element's ok = FALSE when reading its .text
   raises (a stale element), else text is its visible text. *)
Found(elems) == [ok |-> TRUE, elems |-> elems]
FindRaises == [ok |-> FALSE, elems |-> <<>>]
Live(text) == [ok |-> TRUE, text |-> text]
Stale == [ok |-> FALSE, text |-> <<>>]

RECURSIVE ScanUpcElements(_)
\* lines 212-226: the loop over upc_elements; <<>> is upc = None
ScanUpcElements(elems) ==
    IF elems = <<>> THEN <<>>
    ELSE IF ~Head(elems).ok THEN <<>>
    ELSE LET elem_text == Head(elems).text
             labeled == LabeledNumber(elem_text, {UpcLabel, UpcSpelled},
                                      IsSpaceOrColon, UpcMin, UpcMax)
             bare == BareNumber(elem_text, UpcMin, UpcMax)
         IN IF labeled # <<>> /\ Len(labeled) >= UpcMin THEN labeled
            ELSE IF Accepted(bare, UpcMin, UpcMax) THEN bare
            ELSE ScanUpcElements(Tail(elems))

\* lines 207-228: the lookup in the live page, any exception swallowed
LiveUpc(found) == IF found.ok THEN ScanUpcElements(found.elems) ELSE <<>>

RECURSIVE ScanModals(_)
\* lines 301-308: the loop over modal_elements
ScanModals(elems) ==
    IF elems = <<>> THEN <<>>
    ELSE IF ~Head(elems).ok THEN <<>>
    ELSE IF FirstPattern(Head(elems).text) # <<>> THEN FirstPattern(Head(elems).text)
    ELSE ScanModals(Tail(elems))

RECURSIVE ScanSections(_)
\* lines 315-322: the loop over specs_sections
ScanSections(sections) ==
    IF sections = <<>> THEN <<>>
    ELSE LET candidate == LabeledNumber(ElemText(Head(sections)), {UpcLabel},
                                        IsNonDigit, UpcMin, UpcMax)
         IN IF Accepted(candidate, UpcMin, UpcMax) THEN candidate
            ELSE ScanSections(Tail(sections))

\* lines 313-322
SectionUpc(soup) ==
    ScanSections(FindAll(soup, {"table", "div", "section"},
                         {<<"spec">>, <<"detail">>}))

\* how many lines, from a line naming the UPC on, are searched together
LineWindow == 3

\* LineUpc searching for the 8 to 14 digits of the other strategies
LineUpc_From8(page_text) ==
    LET lines == Split(page_text, "\n")
        Window(i) == Join(SubSeq(lines, i, Min(i + LineWindow - 1, Len(lines))), " ")
        hits == {i \in 1..Len(lines) :
                    /\ Contains(lines[i], UpcLabel) \/ Contains(lines[i], UpcSpelled)
                    /\ Accepted(BareNumber(Window(i), UpcMin, UpcMax), UpcMin, UpcMax)}
    IN IF hits = {} THEN <<>> ELSE BareNumber(Window(SetMin(hits)), UpcMin, UpcMax)

\* lines 325-334: the first line naming the UPC whose window holds a number
LineUpc(page_text) ==
    LET lines == Split(page_text, "\n")
        Window(i) == Join(SubSeq(lines, i, Min(i + LineWindow - 1, Len(lines))), " ")
        hits == {i \in 1..Len(lines) :
                    /\ Contains(lines[i], UpcLabel) \/ Contains(lines[i], UpcSpelled)
                    /\ Accepted(BareNumber(Window(i), UpcLongMin, UpcMax), UpcLongMin, UpcMax)}
    IN IF hits = {} THEN <<>> ELSE BareNumber(Window(SetMin(hits)), UpcLongMin, UpcMax)

\* AsksModals of an _extract_upc that uses the driver without the test of
\* line 295, or that is handed the driver whatever modal_opened is
AsksModals_NoDriverTest(page_text, driver) == FirstPattern(page_text) = <<>>

\* whether _extract_upc gets as far as asking the driver for the modals
AsksModals(page_text, driver) == driver /\ FirstPattern(page_text) = <<>>

\* _extract_upc with the specification blocks searched before the modals
_extract_upc_SectionsBeforeModals(soup, page_text, driver, found) ==
    IF FirstPattern(page_text) # <<>> THEN FirstPattern(page_text)
    ELSE IF SectionUpc(soup) # <<>> THEN SectionUpc(soup)
    ELSE LET modal == IF driver /\ found.ok THEN ScanModals(found.elems) ELSE <<>>
         IN IF modal # <<>> THEN modal
            ELSE LineUpc(page_text)

\* _extract_upc(soup, page_text, driver); found is what find_elements
\* hands back when it is asked; <<>> is None
_extract_upc(soup, page_text, driver, found) ==
    IF FirstPattern(page_text) # <<>> THEN FirstPattern(page_text)
    ELSE LET modal == IF driver /\ found.ok THEN ScanModals(found.elems) ELSE <<>>
         IN IF modal # <<>> THEN modal
            ELSE IF SectionUpc(soup) # <<>> THEN SectionUpc(soup)
            ELSE LineUpc(page_text)

\* StoreUpc without the test `if upc:`
StoreUpc_Always(found_upc, default) == found_upc

\* lines 234-235: if upc: result['upc'] = upc
StoreUpc(found_upc, default) == IF found_upc # <<>> THEN found_upc ELSE default

\* lines 238-244: the SKU read off the URL, `default` when there is none
SkuOf(product_url, default) ==
    LET last_part == SplitLast(product_url, "/")
        sku_candidate == SplitFirst(last_part, "?")
    IN IF last_part # <<>> /\ ~StartsWith(last_part, <<"?">>) /\ StrLen(sku_candidate) > 3
       THEN sku_candidate ELSE default

(* ------------------------------------------------------------------ *)
(* the pages the browser can hand back                                 *)
(* ------------------------------------------------------------------ *)

\* n times the digit d
Run(d, n) == [i \in 1..n |-> d]

P(text) == Elem("p", <<>>, text)

\* the top of a product page with every field present
FullHead ==
    << Elem("h1", <<>>, <<" ", "W", " ", "X", " ">>),
       Elem("div", <<"priceView">>, <<"$", "1", "9">>),
       Elem("div", <<"c-", "rating">>, <<"4", ".", "5">>),
       Elem("span", <<"reviews">>, <<"1", "2">>),
       Img(<<"product">>, <<"pisces.", "bestbuy", "/", "i">>, <<>>),
       Img(<<"product">>, <<"pisces.", "bestbuy", "/", "i">>, <<>>),
       Img(<<"product">>, <<>>, <<"pisces.", "bestbuy", "/", "j">>),
       Img(<<"product">>, <<"cdn.", "other", "/", "i">>, <<>>),
       Img(<<"product">>, <<"cdn.", "other", "/", "bestbuy", "/", "i">>, <<>>),
       Img(<<"logo">>, <<"pisces.", "bestbuy", "/", "l">>, <<>>),
       Nav(<<"breadcrumb">>, << <<"A">>, <<" ", "B">>, <<"A">>, <<" ">> >>),
       Elem("div", <<"description">>, <<"x{198}", "a", "b", "c">>) >>

\* a top whose heading and price are there and blank
BlankHead ==
    << Elem("h1", <<>>, <<" ">>), Elem("div", <<"priceView">>, <<" ">>) >>

Heads == {<<>>, BlankHead}

\* body texts: the labels and numbers the model, stock and UPC searches meet
Bodies ==
    { <<>>,
      <<"Model", ":", " ", "A", "B", "1", "\n", "in", " ", "stock", "\n",
        "UPC", ":", " ">> \o Run("1", 12),
      <<"UPC", ":", " ">> \o Run("1", 7) \o <<"\n", "Out", " ", "of", " ", "Stock">>,
      <<"GTIN", " ">> \o Run("2", 13) \o <<" ", "Model", " ", "A", "/", "B", "SKU">>,
      UpcSpelled \o <<":">> \o Run("3", 16),
      <<"UPC", " ", "code", " ", "-", " ">> \o Run("4", 12),
      <<"UPC", " ", "5", " ", "stars", "\n">> \o Run("5", 12),
      <<"UPC", " ", "-", " ">> \o Run("6", 9),
      <<"OUT", " ", "OF", " ", "STOCK", ",", " ", "In", " ", "Stock", " ", "Model", "s">>,
      <<"W", " ">> \o Run("7", 12),
      UpcSpelled \o <<" ", "-", " ">> \o Run("8", 12) }

\* a body with a model and no UPC, for the pages that vary the rest
PlainBody == <<"Model", ":", " ", "A", "B", "1">>

Row(key, value) == <<key, value>>
SpecDiv(rows) == Section("div", <<"spec", "ification", "s">>, <<"S">>, rows)

\* the specification and detail blocks after the body
SpecParts ==
    { <<>>,
      <<SpecDiv(<<>>)>>,
      <<SpecDiv(<<Row(<<"k">>, <<" ", "v">>)>>)>>,
      <<SpecDiv(<<Row(<<"a">>, <<"v">>), Row(<<"b">>, <<"v">>), Row(<<"c">>, <<"v">>),
                  Row(<<"d">>, <<"v">>), Row(<<"e">>, <<"v">>), Row(<<"f">>, <<"v">>)>>)>>,
      <<SpecDiv(<< <<<<"k">>>>, Row(<<"k">>, <<" ">>), Row(<<>>, <<"v">>) >>)>>,
      <<SpecDiv(<< <<<<"k">>>>, Row(<<"a">>, <<"v">>), <<<<"k">>>>, <<<<"k">>>>, <<<<"k">>>>,
                   Row(<<"f">>, <<"v">>) >>)>>,
      <<Elem("div", <<"product", "-", "detail", "s">>, <<"UPC", " ", "-", " ">> \o Run("6", 9))>>,
      <<SpecDiv(<<Row(<<"UPC">>, Run("9", 12))>>)>> }

\* a gallery of twelve product images, each with an address of its own
Gallery ==
    [i \in 1..(MaxImages + 2) |->
        Img(<<"product">>, <<"pisces.", "bestbuy", "/">> \o Run("i", i), <<>>)]

\* the gallery behind a product image served from another site
CrowdedGallery ==
    <<Img(<<"product">>, <<"cdn.", "other", "/", "i">>, <<>>)>> \o Gallery

\* the product pages page_source can return
Docs ==
    {FullHead \o <<P(t)>> : t \in Bodies}
    \cup {Gallery \o <<P(PlainBody)>>, CrowdedGallery \o <<P(PlainBody)>>}
    \cup {h \o <<P(PlainBody)>> \o s : h \in Heads, s \in SpecParts}

\* what find_elements can hand back for the UPC elements of the live page
LiveResults ==
    { FindRaises,
      Found(<<>>),
      Found(<<Live(<<"UPC">>)>>),
      Found(<<Live(<<"UPC", ":", " ">> \o Run("1", 12))>>),
      Found(<<Live(<<"UPC", " ", "x", " ">> \o Run("2", 9))>>),
      Found(<<Stale, Live(<<"UPC", ":", " ">> \o Run("1", 12))>>) }

\* what find_elements can hand back for the modal and dialog elements
ModalResults ==
    { FindRaises,
      Found(<<>>),
      Found(<<Live(<<"S">>), Live(<<"GTIN", " ">> \o Run("3", 13))>>),
      Found(<<Stale, Live(<<"GTIN", " ">> \o Run("3", 13))>>) }

(* ------------------------------------------------------------------ *)
(* the parsed document of a search page, and the first product in it   *)
(* ------------------------------------------------------------------ *)

(* The anchors of the page in document order, and how many sku-item divs
   it has.  An anchor has its href (<<>> when absent), its text and title,
   the img under it, the first img met going up its ancestors (both with
   present = FALSE when there is none), and the sku-item div it sits in
   (0 for none). *)
NoImg == [present |-> FALSE, src |-> <<>>, data_src |-> <<>>]
ImgOf(src, data_src) == [present |-> TRUE, src |-> src, data_src |-> data_src]
Anchor(href, text, title, img, near, card) ==
    [href |-> href, text |-> text, title |-> title, img |-> img, near |-> near, card |-> card]
Listing(anchors, cards) == [anchors |-> anchors, cards |-> cards]

IsProductLink(a) == a.href # <<>> /\ Contains(a.href, ProductPath)

NotFound == <<"Not found">>

\* NoProducts leaving the result as it is
NoProducts_Silent(result) == result

\* lines 164-166: the else branch of `if product_links:`
NoProducts(result) ==
    [result EXCEPT !.status = "error", !.message = <<"No products found on page">>]

\* FirstLink taking the last of the links
FirstLink_Last(product_links) == product_links[Len(product_links)]

\* line 113: first_product_link = product_links[0]
FirstLink(product_links) == product_links[1]

\* lines 101-166: the fields the listing scraper sets on its result
ExtractListing(soup, result) ==
    LET direct == SelectSeq(soup.anchors, IsProductLink)
        inCard == SelectSeq(soup.anchors, LAMBDA a : a.card = 1 /\ IsProductLink(a))
        product_links ==
            IF direct # <<>> THEN direct
            ELSE IF soup.cards > 0 /\ inCard # <<>> THEN <<inCard[1]>>
            ELSE <<>>
    IN IF product_links = <<>>
       THEN NoProducts(result)
       ELSE LET first_product_link == FirstLink(product_links)
                product_url == first_product_link.href
                product_name ==
                    IF Strip(first_product_link.text) # <<>>
                    THEN Strip(first_product_link.text) ELSE first_product_link.title
                full_url ==
                    IF StartsWith(product_url, <<"http">>) THEN product_url
                    ELSE base_url \o product_url
                last_part == SplitLast(product_url, "/")
                sku == IF last_part # <<>> /\ ~StartsWith(last_part, <<"?">>)
                       THEN SplitFirst(last_part, "?") ELSE NotFound
                img_elem == IF first_product_link.img.present THEN first_product_link.img
                            ELSE first_product_link.near
                src == IF img_elem.src # <<>> THEN img_elem.src ELSE img_elem.data_src
                image_url == IF img_elem.present /\ src # <<>> THEN src ELSE NotFound
                name == IF product_name # <<>> THEN product_name ELSE NotFound
            IN IF product_url = <<>> THEN result
               ELSE [result EXCEPT !.name = name, !.link = product_url,
                                   !.full_url = full_url, !.image = image_url,
                                   !.sku = sku, !.message = <<"Found product: ">> \o name]

\* the search pages page_source can return
ListingDocs ==
    { Listing(<<>>, 0),
      Listing(<<Anchor(<<"/", "site", "/", "x">>, <<"h">>, <<>>, NoImg, NoImg, 1)>>, 1),
      Listing(<<Anchor(<<>>, <<"h">>, <<>>, NoImg, NoImg, 0),
                Anchor(ProductPath \o <<"w", "/", "1", "2">>, <<" ", "W", " ">>, <<"t">>,
                       ImgOf(<<"i">>, <<>>), NoImg, 1),
                Anchor(ProductPath \o <<"v", "/", "3", "4">>, <<"V">>, <<>>, NoImg, NoImg, 2)>>, 2),
      Listing(<<Anchor(base_url \o ProductPath \o <<"w", "/", "1", "2", "?", "q">>, <<" ">>,
                       <<"t">>, NoImg, ImgOf(<<>>, <<"j">>), 0)>>, 0),
      Listing(<<Anchor(ProductPath, <<>>, <<>>, NoImg, ImgOf(<<>>, <<>>), 0)>>, 0),
      Listing(<<Anchor(<<"http", ":", "/", "/", "other", ".com">> \o ProductPath \o <<"?", "q">>,
                       <<"W">>, <<>>, NoImg, NoImg, 0)>>, 0) }

(* ------------------------------------------------------------------ *)
(* state                                                               *)
(* ------------------------------------------------------------------ *)

VARIABLES
    op,             \* which scraper was called: "product", "listing", "none"
    input,          \* its argument, product_url or search_url
    result,         \* the dict it builds and returns
    driver,         \* "None", "open" (webdriver.Chrome returned), "quit"
    pc,             \* where the call is
    outcome,        \* "running", "returned" (result handed back), "raised"
    modal_opened,   \* the flag of the main scraper
    selector,       \* index into spec_selectors of the running loop
    spec_elements,  \* how many elements the selector matched
    elem,           \* index of spec_elem among them
    soup,           \* the parsed page, <<>> before it is parsed
    page_source,    \* driver.page_source as read, <<>> before
    upc,            \* the local upc of the main scraper, <<>> for None
    live_upc,       \* the UPC the lookup of lines 206-228 came to, <<>> for none
    modal_upc,      \* the UPC the lookup of lines 295-310 came to, <<>> for none
    called,         \* the browser operations issued so far
    n,              \* how often Chrome(), get, page_source and quit were issued
    failed,         \* the steps that raised or timed out before the extraction
    clicks,         \* the clicks that went through
    sinceSnapshot,  \* the browser operations issued after page_source
    afterQuit,      \* whether a browser operation was issued after quit
    landed,         \* what get left in the browser, until the wait for content
    calls,          \* the requests the server handles at once, each with its locals
    sessions        \* the browser sessions webdriver.Chrome() has created

loop == <<selector, spec_elements, elem>>
lookups == <<live_upc, modal_upc>>
page == <<soup, page_source, upc, lookups>>
history == <<called, n, failed, clicks, sinceSnapshot, afterQuit>>
\* the locals of one call followed step by step
call == <<op, input, result, driver, pc, outcome, modal_opened, loop, page, history,
          landed>>
\* the requests in flight and their sessions
concurrent == <<calls, sessions>>
vars == <<call, concurrent>>

\* the requests the server is handling, each in a thread of its own
Requests == 1..NumRequests
\* the locals of a handler that has not been entered
IdleCall == [kind |-> "none", pc |-> "idle", driver |-> 0, status |-> "none", ops |-> 0]

\* spec_selectors, lines 102-111: three "see all specifications" selectors,
\* then three "specifications" selectors
NumSelectors == 6

\* result as built on lines 41-58
ProductResult(product_url) ==
    [status |-> "success", message |-> <<>>, url |-> product_url,
     name |-> NotFound, price |-> <<"Not available">>, rating |-> <<"No rating">>,
     review_count |-> <<"0">>, sku |-> <<"N/A">>, upc |-> <<"Not available">>,
     model |-> NotFound, availability |-> <<"Availability unknown">>,
     in_stock |-> FALSE, description |-> <<>>, categories |-> <<>>,
     images |-> <<>>, specifications |-> <<>>]

\* result as built on lines 36-44 of the list scraper
ListingResult ==
    [status |-> "success", message |-> <<>>, name |-> NotFound, link |-> NotFound,
     full_url |-> NotFound, image |-> NotFound, sku |-> NotFound]

Init ==
    /\ op = "none"
    /\ input = NotAStr
    /\ result = [status |-> "none"]
    /\ driver = "None"
    /\ pc = "idle"
    /\ outcome = "running"
    /\ modal_opened = FALSE
    /\ selector = 0 /\ spec_elements = 0 /\ elem = 0
    /\ soup = <<>> /\ page_source = <<>> /\ upc = <<>>
    /\ live_upc = <<>> /\ modal_upc = <<>>
    /\ called = {}
    /\ n = [Chrome |-> 0, get |-> 0, page_source |-> 0, quit |-> 0]
    /\ failed = {}
    /\ clicks = 0
    /\ sinceSnapshot = {}
    /\ afterQuit = FALSE
    /\ landed = "nowhere"
    /\ calls = [c \in Requests |-> IdleCall]
    /\ sessions = <<>>

\* bookkeeping of the browser operations `ops` issued by a step
Issue(ops) ==
    /\ called' = called \cup ops
    /\ sinceSnapshot' = IF n.page_source > 0 THEN sinceSnapshot \cup ops ELSE sinceSnapshot
    /\ afterQuit' = (afterQuit \/ driver = "quit")

\* except Exception as e (lines 265-267, 168-170): the step `step` raised
Raise(step) ==
    /\ result' = [result EXCEPT !.status = "error",
                                !.message = <<"Scraping failed: ", step>>]
    /\ failed' = failed \cup {step}
    /\ pc' = "finally"

(* ------------------------------------------------------------------ *)
(* the calls: construction of result and validation of the URL         *)
(* ------------------------------------------------------------------ *)

\* main scraper lines 41-71
scrape_bestbuy_product(product_url) ==
    /\ pc = "idle"
    /\ UNCHANGED <<concurrent, landed>>
    /\ op' = "product"
    /\ input' = product_url
    /\ IF ~product_url.isStr
       THEN /\ result' = [ProductResult(product_url) EXCEPT
                            !.status = "error",
                            !.message = <<"product_url must be a string">>]
            /\ pc' = "done"
            /\ outcome' = "returned"
       ELSE IF ~ValidProductUrl(product_url.s)
       THEN /\ result' = [ProductResult(product_url) EXCEPT
                            !.status = "error",
                            !.message = <<"Invalid Best Buy product URL">>]
            /\ pc' = "done"
            /\ outcome' = "returned"
       ELSE /\ result' = ProductResult(product_url)
            /\ pc' = "create"
            /\ outcome' = outcome
    /\ UNCHANGED <<driver, modal_opened, loop, page, history>>

\* list scraper lines 36-57
scrape_bestbuy_first_product(search_url) ==
    /\ pc = "idle"
    /\ UNCHANGED <<concurrent, landed>>
    /\ op' = "listing"
    /\ input' = search_url
    /\ IF ~search_url.isStr
       THEN /\ result' = [ListingResult EXCEPT
                            !.status = "error",
                            !.message = <<"search_url must be a string">>]
            /\ pc' = "done"
            /\ outcome' = "returned"
       ELSE IF ~ValidListingUrl(search_url.s)
       THEN /\ result' = [ListingResult EXCEPT
                            !.status = "error",
                            !.message = <<"Invalid Best Buy search/list URL">>]
            /\ pc' = "done"
            /\ outcome' = "returned"
       ELSE /\ result' = ListingResult
            /\ pc' = "create"
            /\ outcome' = outcome
    /\ UNCHANGED <<driver, modal_opened, loop, page, history>>

(* ------------------------------------------------------------------ *)
(* navigation                                                          *)
(* ------------------------------------------------------------------ *)

\* webdriver.Chrome(options=chrome_options): main 81, list 71
CreateDriver ==
    /\ pc = "create"
    /\ UNCHANGED <<concurrent, landed>>
    /\ Issue({"Chrome"})
    /\ n' = [n EXCEPT !.Chrome = @ + 1]
    /\ \E ok \in BOOLEAN :
        IF ok
        THEN /\ driver' = "open"
             /\ pc' = "get"
             /\ UNCHANGED <<result, failed>>
        ELSE /\ Raise("Chrome")
             /\ UNCHANGED driver
    /\ UNCHANGED <<op, input, outcome, modal_opened, loop, page, clicks>>

(* Where driver.get leaves the browser: on the page asked for, or on an
   interstitial, that is at another URL or under the title of a country or
   region chooser.  Neither scraper reads driver.current_url or driver.title,
   so the landing is known to the browser alone; it is followed up to the
   wait for content, where the navigation is over, and not after. *)
Landings == {"requested page", "interstitial"}

\* driver.get(url): main 84, list 74
Get ==
    /\ pc = "get"
    /\ UNCHANGED concurrent
    /\ Issue({"get"})
    /\ n' = [n EXCEPT !.get = @ + 1]
    /\ \E ok \in BOOLEAN :
        IF ok
        THEN /\ pc' = IF op = "listing" THEN "region" ELSE "wait"
             /\ landed' \in Landings
             /\ UNCHANGED <<result, failed>>
        ELSE /\ Raise("get")
             /\ UNCHANGED landed
    /\ UNCHANGED <<op, input, driver, outcome, modal_opened, loop, page, clicks>>

\* list scraper lines 78-83: the country modal; find_element raises when
\* there is no such element, and any exception is swallowed
CloseRegionModal ==
    /\ pc = "region"
    /\ UNCHANGED <<concurrent, landed>>
    /\ \E found \in BOOLEAN, ok \in BOOLEAN :
        /\ Issue(IF found THEN {"find_element", "execute_script"} ELSE {"find_element"})
        /\ failed' = IF found /\ ok THEN failed ELSE failed \cup {"region"}
    /\ pc' = "wait"
    /\ UNCHANGED <<op, input, result, driver, outcome, modal_opened, loop, page, n, clicks>>

\* WaitForContent without its except clause: a timeout ends the call
WaitForContent_TimeoutRaises ==
    /\ pc = "wait"
    /\ UNCHANGED concurrent
    /\ landed' = "nowhere"
    /\ Issue({"until"})
    /\ \E ok \in BOOLEAN :
        IF ok
        THEN /\ IF op = "product"
                THEN /\ pc' = "find"
                     /\ selector' = 1
                ELSE /\ pc' = "scroll"
                     /\ UNCHANGED selector
             /\ UNCHANGED <<result, failed>>
        ELSE /\ Raise("wait")
             /\ UNCHANGED selector
    /\ UNCHANGED <<op, input, driver, outcome, modal_opened, spec_elements, elem,
                   page, n, clicks>>

\* WebDriverWait(driver, 10).until(...): main 88-93 (an h1), list 86-91
\* (a product link); a timeout is swallowed
WaitForContent ==
    /\ pc = "wait"
    /\ UNCHANGED concurrent
    /\ landed' = "nowhere"
    /\ Issue({"until"})
    /\ \E ok \in BOOLEAN :
        failed' = IF ok THEN failed ELSE failed \cup {"wait"}
    /\ IF op = "product"
       THEN /\ pc' = "find"
            /\ selector' = 1
       ELSE /\ pc' = "scroll"
            /\ UNCHANGED selector
    /\ UNCHANGED <<op, input, result, driver, outcome, modal_opened, spec_elements, elem,
                   page, n, clicks>>

(* ------------------------------------------------------------------ *)
(* main scraper lines 99-150: opening the specifications               *)
(* ------------------------------------------------------------------ *)

\* the loops are left (break with modal_opened, or the selectors ran out);
\* their variables are not read again
LeaveLoops ==
    /\ pc' = "scroll"
    /\ selector' = 0 /\ spec_elements' = 0 /\ elem' = 0

\* `continue` of the outer loop, or its end
NextSelector ==
    IF selector < NumSelectors
    THEN /\ pc' = "find"
         /\ selector' = selector + 1
         /\ spec_elements' = 0 /\ elem' = 0
    ELSE LeaveLoops

\* `continue` of the inner loop (line 144), or its end with modal_opened
\* still False (line 145)
NextElement ==
    IF elem < spec_elements
    THEN /\ pc' = "scrollTo"
         /\ elem' = elem + 1
         /\ UNCHANGED <<selector, spec_elements>>
    ELSE NextSelector

\* line 115: driver.find_elements(By.XPATH, selector); found = -1 when it
\* raises (line 147), else the number of elements
FindSpecElements ==
    /\ pc = "find"
    /\ UNCHANGED <<concurrent, landed>>
    /\ Issue({"find_elements"})
    /\ \E found \in -1..MaxElems :
        IF found > 0
        THEN /\ spec_elements' = found
             /\ elem' = 1
             /\ pc' = "scrollTo"
             /\ UNCHANGED <<selector, failed>>
        ELSE /\ NextSelector
             /\ failed' = IF found < 0 THEN failed \cup {"find_elements"} ELSE failed
    /\ UNCHANGED <<op, input, result, driver, outcome, modal_opened, page, n, clicks>>

\* line 120: scrollIntoView by script; an exception goes to line 143
ScrollToElement ==
    /\ pc = "scrollTo"
    /\ UNCHANGED <<concurrent, landed>>
    /\ Issue({"execute_script"})
    /\ \E ok \in BOOLEAN :
        IF ok
        THEN /\ pc' = "click"
             /\ UNCHANGED <<loop, failed>>
        ELSE /\ NextElement
             /\ failed' = failed \cup {"interact"}
    /\ UNCHANGED <<op, input, result, driver, outcome, modal_opened, page, n, clicks>>

\* line 125: spec_elem.click(); an exception goes to line 127
ClickElement ==
    /\ pc = "click"
    /\ UNCHANGED <<concurrent, landed>>
    /\ Issue({"click"})
    /\ \E ok \in BOOLEAN :
        IF ok
        THEN /\ pc' = "waitModal"
             /\ clicks' = clicks + 1
             /\ UNCHANGED failed
        ELSE /\ pc' = "scriptClick"
             /\ failed' = failed \cup {"interact"}
             /\ UNCHANGED clicks
    /\ UNCHANGED <<op, input, result, driver, outcome, modal_opened, loop, page, n>>

\* line 127: the click by script; an exception goes to line 143
ScriptClick ==
    /\ pc = "scriptClick"
    /\ UNCHANGED <<concurrent, landed>>
    /\ Issue({"execute_script"})
    /\ \E ok \in BOOLEAN :
        IF ok
        THEN /\ pc' = "waitModal"
             /\ clicks' = clicks + 1
             /\ UNCHANGED <<loop, failed>>
        ELSE /\ NextElement
             /\ failed' = failed \cup {"interact"}
             /\ UNCHANGED clicks
    /\ UNCHANGED <<op, input, result, driver, outcome, modal_opened, page, n>>

\* WaitForModal without the break of line 146: the next selector is tried
WaitForModal_NoBreak ==
    /\ pc = "waitModal"
    /\ UNCHANGED <<concurrent, landed>>
    /\ Issue({"until", "find_elements"})
    /\ \E ok \in BOOLEAN :
        failed' = IF ok THEN failed ELSE failed \cup {"waitModal"}
    /\ modal_opened' = TRUE
    /\ NextSelector
    /\ UNCHANGED <<op, input, result, driver, outcome, page, n, clicks>>

\* WaitForModal with modal_opened set only when the wait ends in time
WaitForModal_TimeoutClosed ==
    /\ pc = "waitModal"
    /\ UNCHANGED <<concurrent, landed>>
    /\ Issue({"until", "find_elements"})
    /\ \E ok \in BOOLEAN :
        /\ failed' = IF ok THEN failed ELSE failed \cup {"waitModal"}
        /\ modal_opened' = ok
    /\ LeaveLoops
    /\ UNCHANGED <<op, input, result, driver, outcome, page, n, clicks>>

\* lines 130-146: the wait for the modal; modal_opened is set whether the
\* wait ends or times out, and both loops are left
WaitForModal ==
    /\ pc = "waitModal"
    /\ UNCHANGED <<concurrent, landed>>
    /\ Issue({"until", "find_elements"})
    /\ \E ok \in BOOLEAN :
        failed' = IF ok THEN failed ELSE failed \cup {"waitModal"}
    /\ modal_opened' = TRUE
    /\ LeaveLoops
    /\ UNCHANGED <<op, input, result, driver, outcome, page, n, clicks>>

(* ------------------------------------------------------------------ *)
(* the snapshot: main 152-158, list 93-99                              *)
(* ------------------------------------------------------------------ *)

\* driver.execute_script("window.scrollBy(0, 500);")
ScrollPage ==
    /\ pc = "scroll"
    /\ UNCHANGED <<concurrent, landed>>
    /\ Issue({"execute_script"})
    /\ \E ok \in BOOLEAN :
        IF ok
        THEN /\ pc' = "source"
             /\ UNCHANGED <<result, failed>>
        ELSE Raise("scrollBy")
    /\ UNCHANGED <<op, input, driver, outcome, modal_opened, loop, page, n, clicks>>

\* page_source = driver.page_source
PageSource ==
    /\ pc = "source"
    /\ UNCHANGED <<concurrent, landed>>
    /\ Issue({"page_source"})
    /\ n' = [n EXCEPT !.page_source = @ + 1]
    /\ \/ /\ \E doc \in (IF op = "product" THEN Docs ELSE ListingDocs) :
                page_source' = doc
          /\ pc' = "parse"
          /\ UNCHANGED <<result, failed>>
       \/ /\ Raise("page_source")
          /\ UNCHANGED page_source
    /\ UNCHANGED <<op, input, driver, outcome, modal_opened, loop, soup, upc, lookups,
                   clicks>>

\* soup = BeautifulSoup(page_source, 'html.parser')
Parse ==
    /\ pc = "parse"
    /\ UNCHANGED <<concurrent, landed>>
    /\ \E ok \in BOOLEAN :
        IF ok
        THEN /\ soup' = page_source
             /\ pc' = "extract"
             /\ UNCHANGED <<result, failed>>
        ELSE /\ Raise("parse")
             /\ UNCHANGED soup
    /\ UNCHANGED <<op, input, driver, outcome, modal_opened, loop, page_source, upc, lookups,
                   called, n, clicks, sinceSnapshot, afterQuit>>

(* ------------------------------------------------------------------ *)
(* extraction                                                          *)
(* ------------------------------------------------------------------ *)

\* LooksInLivePage without the test of line 206
LooksInLivePage_Always(opened) == TRUE

\* line 206: if modal_opened:
LooksInLivePage(opened) == opened

\* main scraper lines 160-228: name, price, rating, review count, model and
\* stock from the soup; then, with modal_opened, the UPC from the live page
ExtractFields ==
    /\ pc = "extract"
    /\ UNCHANGED <<concurrent, landed>>
    /\ op = "product"
    /\ LET page_text == PageText(soup)
           model_match == ModelMatch(page_text)
           stock == Availability(page_text, result.in_stock, result.availability)
       IN result' = [result EXCEPT
            !.name = TextOf(soup, {"h1"}, <<>>, @, FALSE),
            !.price = TextOf(soup, {"div"}, <<"priceView">>, @, TRUE),
            !.rating = TextOf(soup, {"div"}, <<"rating">>, @, TRUE),
            !.review_count = TextOf(soup, {"span"}, <<"reviews">>, @, TRUE),
            !.model = IF model_match # <<>> THEN Strip(model_match) ELSE @,
            !.in_stock = stock.in_stock,
            !.availability = stock.availability]
    /\ IF LooksInLivePage(modal_opened)
       THEN \E found \in LiveResults :
                /\ upc' = LiveUpc(found)
                /\ live_upc' = LiveUpc(found)
                /\ Issue(IF found.ok /\ found.elems # <<>>
                         THEN {"find_elements", "text"} ELSE {"find_elements"})
       ELSE /\ upc' = <<>>
            /\ UNCHANGED <<live_upc, called, sinceSnapshot, afterQuit>>
    /\ pc' = "extractUpc"
    /\ UNCHANGED <<op, input, driver, outcome, modal_opened, loop, soup, page_source,
                   modal_upc,
                   n, failed, clicks>>

\* main scraper lines 230-263: _extract_upc when the live page gave no UPC,
\* then SKU, images, categories, specifications, description and message
ExtractRest ==
    /\ pc = "extractUpc"
    /\ UNCHANGED <<concurrent, landed>>
    /\ LET page_text == PageText(soup)
           asks == upc = <<>> /\ AsksModals(page_text, modal_opened)
           desc_elem == FindFirst(soup, {"div"}, <<"description">>)
       IN \E found \in (IF asks THEN ModalResults ELSE {FindRaises}) :
            LET upc2 == IF upc # <<>> THEN upc
                        ELSE _extract_upc(soup, page_text, modal_opened, found)
            IN /\ result' = [result EXCEPT
                    !.upc = StoreUpc(upc2, @),
                    !.sku = SkuOf(input.s, @),
                    !.images = _extract_images(soup),
                    !.categories = _extract_categories(soup),
                    !.specifications = _extract_specifications(soup),
                    !.description =
                        IF desc_elem # 0
                        THEN Take(Strip(ElemText(soup[desc_elem])), MaxDescription) ELSE @,
                    !.message = <<"Successfully scraped: ">> \o result.name]
               /\ upc' = upc2
               /\ modal_upc' = IF asks /\ found.ok THEN ScanModals(found.elems) ELSE <<>>
               /\ IF asks
                  THEN Issue(IF found.ok /\ found.elems # <<>>
                             THEN {"find_elements", "text"} ELSE {"find_elements"})
                  ELSE UNCHANGED <<called, sinceSnapshot, afterQuit>>
    /\ pc' = "finally"
    /\ UNCHANGED <<op, input, driver, outcome, modal_opened, loop, soup, page_source,
                   live_upc,
                   n, failed, clicks>>

\* list scraper lines 101-166
ExtractFirstProduct ==
    /\ pc = "extract"
    /\ UNCHANGED <<concurrent, landed>>
    /\ op = "listing"
    /\ result' = ExtractListing(soup, result)
    /\ pc' = "finally"
    /\ UNCHANGED <<op, input, driver, outcome, modal_opened, loop, page, history>>

(* ------------------------------------------------------------------ *)
(* finally: if driver: driver.quit(); then return result               *)
(* main 269-273, list 172-176                                          *)
(* ------------------------------------------------------------------ *)

\* Finally without the call of quit()
Finally_NoQuit ==
    /\ pc = "finally"
    /\ UNCHANGED <<concurrent, landed>>
    /\ outcome' = "returned"
    /\ pc' = "done"
    /\ UNCHANGED <<op, input, result, driver, modal_opened, loop, page, history>>

\* an exception of quit() leaves the finally block and the function
Finally ==
    /\ pc = "finally"
    /\ UNCHANGED <<concurrent, landed>>
    /\ IF driver = "open"
       THEN /\ Issue({"quit"})
            /\ n' = [n EXCEPT !.quit = @ + 1]
            /\ driver' = "quit"
            /\ \E ok \in BOOLEAN :
                /\ outcome' = IF ok THEN "returned" ELSE "raised"
                /\ failed' = IF ok THEN failed ELSE failed \cup {"quit"}
       ELSE /\ outcome' = "returned"
            /\ UNCHANGED <<driver, called, n, failed, sinceSnapshot, afterQuit>>
    /\ pc' = "done"
    /\ UNCHANGED <<op, input, result, modal_opened, loop, page, clicks>>

Next ==
    \/ \E u \in Inputs : scrape_bestbuy_product(u)
    \/ \E u \in Inputs : scrape_bestbuy_first_product(u)
    \/ CreateDriver
    \/ Get
    \/ CloseRegionModal
    \/ WaitForContent
    \/ FindSpecElements
    \/ ScrollToElement
    \/ ClickElement
    \/ ScriptClick
    \/ WaitForModal
    \/ ScrollPage
    \/ PageSource
    \/ Parse
    \/ ExtractFields
    \/ ExtractRest
    \/ ExtractFirstProduct
    \/ Finally

Spec == Init /\ [][Next]_vars

(* ------------------------------------------------------------------ *)
(* requests handled at once                                            *)
(* ------------------------------------------------------------------ *)

(* app.run serves every request in a thread of its own, and a handler
   (list_scraper, main_scraper) calls its scraper there.  result and driver
   are locals of the scraper and the modules hold no other mutable state,
   so a request is its locals: the scraper called, where it is, its driver
   (the number of a session, 0 for None) and the status of its result.  A
   session is what webdriver.Chrome() returned: who created it, whether it
   is open, who issued operations on it, who closed it, and whether an
   operation reached it after it was closed. *)

\* DriverOf reading a module-level driver that the latest call has set
DriverOf_Global(c) == Len(sessions)

\* the name `driver` in the call of request c: a local of that call (line 71)
DriverOf(c) == calls[c].driver

\* the scraper is entered with its argument: lines 41-71 and 36-57
EnterScraper(c, kind, valid) ==
    /\ calls[c].pc = "idle"
    /\ calls' = [calls EXCEPT ![c] =
            [@ EXCEPT !.kind = kind,
                      !.pc = IF valid THEN "create" ELSE "done",
                      !.status = IF valid THEN "success" ELSE "error"]]
    /\ UNCHANGED <<sessions, call>>

\* POST /scrape-product: main_scraper calls scrape_bestbuy_product
main_scraper(c) == \E u \in Inputs : EnterScraper(c, "product", u.isStr /\ ValidProductUrl(u.s))

\* POST /scrape-list: list_scraper calls scrape_bestbuy_first_product
list_scraper(c) == \E u \in Inputs : EnterScraper(c, "listing", u.isStr /\ ValidListingUrl(u.s))

\* driver = webdriver.Chrome(options=chrome_options): a new session, or an
\* exception that leaves driver None
ThreadCreateDriver(c) ==
    /\ calls[c].pc = "create"
    /\ \/ /\ sessions' = Append(sessions, [creator |-> c, open |-> TRUE, users |-> {},
                                           closers |-> {}, usedClosed |-> FALSE])
          /\ calls' = [calls EXCEPT ![c] = [@ EXCEPT !.driver = Len(sessions) + 1,
                                                     !.pc = "use"]]
       \/ /\ calls' = [calls EXCEPT ![c] = [@ EXCEPT !.status = "error", !.pc = "finally"]]
          /\ UNCHANGED sessions
    /\ UNCHANGED call

\* one operation on driver between Chrome() and the finally clause (get,
\* find_elements, execute_script, click, page_source): it returns and the
\* call goes on or has come to its end, or it raises
ThreadUseDriver(c) ==
    /\ calls[c].pc = "use"
    /\ calls[c].ops < MaxOps
    /\ LET d == DriverOf(c)
       IN sessions' = [sessions EXCEPT ![d] =
                [@ EXCEPT !.users = @ \cup {c},
                          !.usedClosed = @ \/ ~sessions[d].open]]
    /\ \E next \in {"goes on", "last", "raises"} :
        calls' = [calls EXCEPT ![c] =
            [@ EXCEPT !.ops = @ + 1,
                      !.pc = IF next = "goes on" THEN "use" ELSE "finally",
                      !.status = IF next = "raises" THEN "error" ELSE @]]
    /\ UNCHANGED call

\* finally: if driver: driver.quit(); then the handler answers
ThreadQuit(c) ==
    /\ calls[c].pc = "finally"
    /\ LET d == DriverOf(c)
       IN IF d # 0
          THEN sessions' = [sessions EXCEPT ![d] =
                    [@ EXCEPT !.closers = @ \cup {c},
                              !.open = FALSE,
                              !.usedClosed = @ \/ ~sessions[d].open]]
          ELSE UNCHANGED sessions
    /\ calls' = [calls EXCEPT ![c] = [@ EXCEPT !.pc = "done"]]
    /\ UNCHANGED call

NextConcurrent ==
    \/ \E c \in Requests : main_scraper(c)
    \/ \E c \in Requests : list_scraper(c)
    \/ \E c \in Requests : ThreadCreateDriver(c)
    \/ \E c \in Requests : ThreadUseDriver(c)
    \/ \E c \in Requests : ThreadQuit(c)

SpecConcurrent == Init /\ [][NextConcurrent]_vars

(* ------------------------------------------------------------------ *)
(* properties                                                          *)
(* ------------------------------------------------------------------ *)

\* the call has ended, by return or by an exception
Ended == pc = "done"
\* the call has handed its result back
Returned == pc = "done" /\ outcome = "returned"
\* the steps whose exception reaches the except clause of the function
Escalating == {"Chrome", "get", "scrollBy", "page_source", "parse"}
\* the steps of opening the specifications, and the wait before them
Absorbed == {"wait", "find_elements", "interact", "waitModal"}
\* where a call of the main scraper can be once lines 99-150 are behind it
AfterDisclosing == {"scroll", "source", "parse", "extract", "extractUpc", "finally", "done"}
\* the page was read and parsed, and the extraction ran to its end
Extracted ==
    /\ pc \in {"finally", "done"}
    /\ n.page_source = 1
    /\ failed \cap Escalating = {}

\* C1's arguments: no str, or without 'bestbuy.com', or without the path marks
RejectedProductArg(u) ==
    \/ ~u.isStr
    \/ ~Contains(u.s, BestBuyCom)
    \/ ~Contains(u.s, ProductPath)
RejectedListingArg(u) ==
    \/ ~u.isStr
    \/ ~Contains(u.s, BestBuyCom)
    \/ (~Contains(u.s, <<"searchpage">>) /\ ~Contains(u.s, SitePath))

\* C1: a call whose argument fails the validation of its scraper has
\* returned a result with status 'error', and no browser operation was
\* issued: no driver created, nothing navigated, nothing closed.
C1_RejectedWithoutBrowser ==
    ( \/ op = "product" /\ RejectedProductArg(input)
      \/ op = "listing" /\ RejectedListingArg(input) )
    => /\ Returned
       /\ result.status = "error"
       /\ result.message # <<>>
       /\ called = {}
       /\ driver = "None"
       /\ n = [Chrome |-> 0, get |-> 0, page_source |-> 0, quit |-> 0]

\* C1 witness: the main scraper given a Best Buy URL without '/product/'
C1_Witness ==
    /\ Returned
    /\ op = "product"
    /\ input.isStr
    /\ Contains(input.s, BestBuyCom)
    /\ ~Contains(input.s, ProductPath)
    /\ result.status = "error"
    /\ called = {}

\* C2: quit() is issued at most once and nothing is issued on the driver
\* after it; when a call ends after webdriver.Chrome returned a driver,
\* quit() was issued exactly once; without a driver, never.
C2_ClosedExactlyOnce ==
    /\ n.quit <= 1
    /\ ~afterQuit
    /\ driver = "quit" => n.quit = 1 /\ Ended
    /\ driver = "None" => n.quit = 0
    /\ Ended => driver # "open"

\* C2 witness: a call that ended through a failure after the driver was
\* created, with its driver closed
C2_Witness ==
    /\ Ended
    /\ "parse" \in failed
    /\ result.status = "error"
    /\ driver = "quit"
    /\ n.quit = 1

\* C3: every call ends by returning a record whose status is 'success' or
\* 'error', whichever browser or parser operations fail.
C3_AlwaysReturnsRecord ==
    Ended => /\ outcome = "returned"
             /\ result.status \in {"success", "error"}

IsPair(e) == DOMAIN e = {"key", "value"}

\* C4: the specifications of every record the main scraper returns are
\* one to five {key, value} pairs, or the single note 'No specifications
\* found'.
C4_SpecificationsNeverEmpty ==
    Returned /\ op = "product" =>
        LET specs == result.specifications
        IN \/ specs = <<NoSpecsNote>>
           \/ /\ Len(specs) \in 1..MaxSpecs
              /\ \A i \in 1..Len(specs) : IsPair(specs[i])

\* the last non-empty path segment of a URL, its query string cut off
LastPathSegment(u) ==
    LET segments == SelectSeq(Split(SplitFirst(u, "?"), "/"), LAMBDA x : x # <<>>)
    IN segments[Len(segments)]

\* C5: the sku of the record returned for a valid product URL is the last
\* non-empty path segment of the URL before any query string, whatever
\* succeeded or failed on the way.
C5_SkuFromUrl ==
    Returned /\ op = "product" /\ ~RejectedProductArg(input) =>
        result.sku = LastPathSegment(input.s)

\* C6: when the specifications were not opened, the model of the returned
\* record is the sentinel 'Not found'.
C6_ModelOnlyWhenOpened ==
    Returned /\ op = "product" /\ ~modal_opened => result.model = NotFound

\* C7: once lines 99-150 are behind, modal_opened is set exactly when a
\* click, direct or by script, went through; a wait for the modal that
\* timed out leaves it set.
C7_OpenedIffClicked ==
    op = "product" /\ pc \in AfterDisclosing =>
        /\ modal_opened <=> clicks >= 1
        /\ "waitModal" \in failed => modal_opened

\* C7 witness: opened by a click after an element's interaction failed and
\* with the wait for the modal timed out
C7_Witness ==
    /\ op = "product"
    /\ pc = "scroll"
    /\ modal_opened
    /\ clicks = 1
    /\ {"interact", "waitModal"} \subseteq failed

\* C8: a timed-out wait for the heading and failures while opening the
\* specifications leave the status 'success'; a call in which nothing else
\* failed has read the page once and has run the extraction to its end.
C8_DisclosureFailuresAbsorbed ==
    op = "product" /\ ~RejectedProductArg(input) /\ failed \cap Escalating = {} =>
        /\ result.status = "success"
        /\ Ended => /\ n.page_source = 1
                    /\ soup = page_source
                    /\ soup \in Docs
                    /\ result.message = <<"Successfully scraped: ">> \o result.name
                    /\ result.specifications # <<>>

\* C8 witness: a call returned with success after the wait, a lookup, an
\* interaction and the wait for the modal all failed
C8_Witness ==
    /\ Returned
    /\ op = "product"
    /\ Absorbed \subseteq failed
    /\ result.status = "success"
    /\ result.message # <<>>

\* C9: a call of the main scraper with a valid URL ends with status 'error'
\* and a message exactly when a step of navigation or of the snapshot
\* failed, and with status 'success' in every other run.
C9_ErrorIffNavigationOrSnapshotFails ==
    Ended /\ op = "product" /\ ~RejectedProductArg(input) =>
        /\ outcome = "returned"
        /\ IF failed \cap Escalating # {}
           THEN result.status = "error" /\ result.message # <<>>
           ELSE result.status = "success"

\* the text holds no run of eight digits
NoLongNumber(text) == BareNumber(text, UpcMin, Len(text) + UpcMin) = <<>>

\* C10: when no UPC strategy accepted a candidate (the local upc is None
\* after _extract_upc), the returned record has upc 'Not available' and
\* status 'success'; and none accepts one when the specifications were not
\* opened and the page text holds no run of eight digits.
C10_NoUpcIsNotAvailable ==
    Returned /\ op = "product" /\ Extracted =>
        /\ upc = <<>> => result.upc = <<"Not available">> /\ result.status = "success"
        /\ ~modal_opened /\ NoLongNumber(PageText(soup)) => upc = <<>>

\* C10 witness: a page that names the UPC with a number too short to be one
C10_Witness ==
    /\ Returned
    /\ op = "product"
    /\ Extracted
    /\ Contains(PageText(soup), UpcLabel)
    /\ upc = <<>>
    /\ result.upc = <<"Not available">>
    /\ result.status = "success"

\* the record of the main scraper exists
HasProductRecord == op = "product" /\ pc # "idle"
\* a str of digits only
IsDigits(s) == \A i \in 1..Len(s) : s[i] \in Digit
\* the page text the extractors read
page_text == PageText(soup)
\* nothing before the line search of lines 325-334 gave a UPC
OnlyLinesLeft ==
    /\ live_upc = <<>>
    /\ FirstPattern(page_text) = <<>>
    /\ modal_upc = <<>>
    /\ SectionUpc(soup) = <<>>

\* C11: the upc of the record is 'Not available' or 8 to 14 digits; a UPC
\* found by the line search, after every other strategy found none, has 11
\* to 14 digits; and what the extraction keeps in the local upc is None or
\* 8 to 14 digits.
C11_UpcLengthBounds ==
    HasProductRecord =>
        /\ \/ result.upc = <<"Not available">>
           \/ IsDigits(result.upc) /\ Len(result.upc) \in UpcMin..UpcMax
        /\ upc # <<>> => IsDigits(upc) /\ Len(upc) \in UpcMin..UpcMax
        /\ Returned /\ Extracted /\ upc # <<>> /\ OnlyLinesLeft => Len(upc) \in UpcLongMin..UpcMax

\* C11 witness: a record whose UPC of twelve digits came from the line search
C11_Witness ==
    /\ Returned
    /\ op = "product"
    /\ Extracted
    /\ OnlyLinesLeft
    /\ result.upc = Run("5", 12)

\* C11 witness of the cap: sixteen digits after the label, fourteen kept
C11_WitnessCapped ==
    /\ Returned
    /\ op = "product"
    /\ Contains(page_text, Run("3", 16))
    /\ result.upc = Run("3", 14)

\* the operations on the driver that look elements up and read them
Lookups == {"find_elements", "text"}

\* C12: after driver.page_source was read the main scraper issues nothing
\* on the driver but element lookups and the closing quit(), and never
\* navigates twice; lookups are issued only with modal_opened set.  With
\* modal_opened unset nothing is issued between page_source and quit(),
\* neither lookup gave a UPC, and the UPC is the one the parsed page gives.
C12_NothingButLookupsAfterSnapshot ==
    op = "product" =>
        /\ sinceSnapshot \subseteq Lookups \cup {"quit"}
        /\ "quit" \in sinceSnapshot => pc = "done"
        /\ n.get <= 1 /\ n.page_source <= 1
        /\ ~modal_opened =>
              /\ sinceSnapshot \cap Lookups = {}
              /\ live_upc = <<>> /\ modal_upc = <<>>
              /\ Returned /\ Extracted =>
                    upc \in {FirstPattern(page_text), SectionUpc(soup), LineUpc(page_text)}
                            \cup {<<>>}

\* C12 witness: with modal_opened set, elements looked up and read after
\* the page source, then the driver closed
C12_Witness ==
    /\ Returned
    /\ op = "product"
    /\ modal_opened
    /\ sinceSnapshot = Lookups \cup {"quit"}

\* C12 witness: with modal_opened unset, a UPC from the page and nothing
\* but quit() issued after the page source
C12_WitnessClosed ==
    /\ Returned
    /\ op = "product"
    /\ ~modal_opened
    /\ upc # <<>>
    /\ sinceSnapshot = {"quit"}

\* the host of an address: what stands before the first '/'
Host(src) == SplitFirst(src, "/")
\* no entry of the list occurs twice
NoDuplicates(list) == \A i, j \in 1..Len(list) : list[i] = list[j] => i = j

\* C13: the images of every record the main scraper returns are at most
\* ten, no two of them equal, each with a host of the retailer's domain.
C13_ImagesBoundedDistinctHosted ==
    Returned /\ op = "product" =>
        /\ Len(result.images) <= MaxImages
        /\ NoDuplicates(result.images)
        /\ \A i \in 1..Len(result.images) : Contains(Host(result.images[i]), <<"bestbuy">>)

\* the part of C13 the code keeps: at most ten images, no two equal
C13_ImagesBoundedDistinct ==
    Returned /\ op = "product" =>
        /\ Len(result.images) <= MaxImages
        /\ NoDuplicates(result.images)

\* a gallery of more than ten images cut to ten
C13_GalleryCut ==
    /\ Returned
    /\ op = "product"
    /\ soup = Gallery \o <<P(PlainBody)>>
    /\ Len(result.images) = MaxImages

\* the anchors of the search page whose href holds '/product/', in
\* document order
DirectAnchors == SelectSeq(soup.anchors, LAMBDA a : Contains(a.href, ProductPath))
\* the list scraper read and parsed the page and ran its extraction
ListingExtracted == op = "listing" /\ Extracted

\* C14: when the search page has anchors to products, link is the href of
\* the first of them in document order, full_url that href, with the base
\* URL before it unless it starts with 'http', and sku the text after the
\* last '/' of that href up to a '?', or 'Not found'; when it has none,
\* the container tier yields no link either.
C14_FirstAnchorOnly ==
    Returned /\ ListingExtracted =>
        IF DirectAnchors # <<>>
        THEN LET href == DirectAnchors[1].href
                 tail == SplitLast(href, "/")
             IN /\ result.status = "success"
                /\ result.link = href
                /\ result.full_url =
                      IF href[1] = "http" THEN href ELSE base_url \o href
                /\ result.sku \in {SplitFirst(tail, "?"), NotFound}
                /\ result.sku = NotFound <=> (tail = <<>> \/ tail[1] = "?")
        ELSE result.link = NotFound /\ result.full_url = NotFound /\ result.sku = NotFound

\* C14 witness: a page with two product anchors, the record from the first
C14_Witness ==
    /\ Returned
    /\ ListingExtracted
    /\ Len(DirectAnchors) = 2
    /\ DirectAnchors[1].href # DirectAnchors[2].href
    /\ result.link = DirectAnchors[1].href
    /\ result.sku = <<"1", "2">>

\* C15: when the list scraper has read and parsed a search page without an
\* anchor to a product, its result has status 'error', the message 'No
\* products found on page' and 'Not found' in name, link, full_url, image
\* and sku; and the call ends with quit() issued once on its driver.
C15_NoProductsIsError ==
    ListingExtracted /\ DirectAnchors = <<>> =>
        /\ result = [ListingResult EXCEPT !.status = "error",
                                          !.message = <<"No products found on page">>]
        /\ \A f \in {"name", "link", "full_url", "image", "sku"} : result[f] = NotFound
        /\ Ended => driver = "quit" /\ n.quit = 1

\* C15 witness: a search page whose only anchor is no product link, inside
\* a product container, and the call returned
C15_Witness ==
    /\ Returned
    /\ ListingExtracted
    /\ soup.cards = 1
    /\ Len(soup.anchors) = 1
    /\ DirectAnchors = <<>>
    /\ result.status = "error"
    /\ result.message = <<"No products found on page">>
    /\ n.quit = 1

\* the sessions created so far
Sessions == 1..Len(sessions)

\* C16: of the requests handled at once, each one that got a driver got a
\* session of its own, created by itself; every operation on a session
\* and its quit() come from the request that created it; no session is
\* used or closed after it was closed; and a request that has ended has
\* closed the session it created.
C16_SessionsNotShared ==
    /\ \A s \in Sessions :
          /\ sessions[s].users \subseteq {sessions[s].creator}
          /\ sessions[s].closers \subseteq {sessions[s].creator}
          /\ ~sessions[s].usedClosed
          /\ calls[sessions[s].creator].driver = s
          /\ sessions[s].open <=> calls[sessions[s].creator].pc # "done"
    /\ \A c \in Requests :
          /\ calls[c].driver \in Sessions \cup {0}
          /\ calls[c].driver # 0 => sessions[calls[c].driver].creator = c
          /\ calls[c].pc = "use" => calls[c].driver # 0
    /\ \A a, b \in Requests :
          a # b /\ calls[a].driver # 0 => calls[a].driver # calls[b].driver

\* C16 witness: two requests at once, each in the middle of its operations
\* on its own open session
C16_Witness ==
    /\ Len(sessions) = 2
    /\ \A s \in Sessions : sessions[s].open /\ sessions[s].users = {sessions[s].creator}
    /\ {calls[c].kind : c \in Requests} = {"product", "listing"}
    /\ \A c \in Requests : calls[c].pc = "use" /\ calls[c].ops = 1

\* the first of the candidates that is a UPC, <<>> when none is
RECURSIVE FirstFound(_)
FirstFound(candidates) ==
    IF candidates = <<>> THEN <<>>
    ELSE IF Head(candidates) # <<>> THEN Head(candidates)
    ELSE FirstFound(Tail(candidates))

\* the record lines 160-263 build from the URL, the page as read and what
\* the two lookups on the live page came to
RecordOf(url, document, live, modal) ==
    LET text == PageText(document)
        found_upc == FirstFound(<<live, FirstPattern(text), modal,
                                  SectionUpc(document), LineUpc(text)>>)
        name == TextOf(document, {"h1"}, <<>>, NotFound, FALSE)
        desc_elem == FindFirst(document, {"div"}, <<"description">>)
    IN [status |-> "success",
        message |-> <<"Successfully scraped: ">> \o name,
        url |-> url,
        name |-> name,
        price |-> TextOf(document, {"div"}, <<"priceView">>, <<"Not available">>, TRUE),
        rating |-> TextOf(document, {"div"}, <<"rating">>, <<"No rating">>, TRUE),
        review_count |-> TextOf(document, {"span"}, <<"reviews">>, <<"0">>, TRUE),
        sku |-> SkuOf(url.s, <<"N/A">>),
        upc |-> IF found_upc # <<>> THEN found_upc ELSE <<"Not available">>,
        model |-> IF ModelMatch(text) # <<>> THEN Strip(ModelMatch(text)) ELSE NotFound,
        availability |-> IF Contains(Lower(text), InStock) THEN <<"In Stock">>
                         ELSE IF Contains(Lower(text), OutOfStock) THEN <<"Out of Stock">>
                         ELSE <<"Availability unknown">>,
        in_stock |-> Contains(Lower(text), InStock),
        description |-> IF desc_elem # 0
                        THEN Take(Strip(ElemText(document[desc_elem])), MaxDescription)
                        ELSE <<>>,
        categories |-> _extract_categories(document),
        images |-> _extract_images(document),
        specifications |-> _extract_specifications(document)]

\* C17 as stated: the record returned after the extraction is a function
\* of the URL and of the page as read.  Every URL and page also have the
\* run in which the specifications are not opened, so the function can
\* only be the record of that run.
C17_RecordFromUrlAndSnapshot ==
    Returned /\ op = "product" /\ Extracted =>
        result = RecordOf(input, page_source, <<>>, <<>>)

\* C17 amended: the record returned after the extraction is a function of
\* the URL, of the page as read and of what the two lookups on the live
\* page came to; with modal_opened unset there are no lookups and it is a
\* function of the URL and the page alone.
C17_RecordFromSnapshotAndLookups ==
    Returned /\ op = "product" /\ Extracted =>
        /\ result = RecordOf(input, page_source, live_upc, modal_upc)
        /\ ~modal_opened => live_upc = <<>> /\ modal_upc = <<>>

\* C17 witness: the page that gives no UPC, and a record with the UPC the
\* live page showed
C17_Witness ==
    /\ Returned
    /\ op = "product"
    /\ Extracted
    /\ modal_opened
    /\ RecordOf(input, page_source, <<>>, <<>>).upc = <<"Not available">>
    /\ result.upc = Run("1", 12)

\* C17 witness: the same for a record of a run that did not open the
\* specifications, its fields from the page
C17_WitnessClosed ==
    /\ Returned
    /\ op = "product"
    /\ Extracted
    /\ ~modal_opened
    /\ result.upc = Run("1", 12)
    /\ result.model = <<"A", "B", "1">>
    /\ result.in_stock

\* C18: the description of the record of the main scraper has at most 200
\* characters.
C18_DescriptionAtMost200 ==
    HasProductRecord => StrLen(result.description) <= MaxDescription

\* C18 witness: a description block of 201 characters, 200 of them returned
C18_Witness ==
    /\ Returned
    /\ op = "product"
    /\ \E i \in 1..Len(soup) :
          /\ soup[i].tag = "div"
          /\ Contains(soup[i].cls, <<"description">>)
          /\ StrLen(ElemText(soup[i])) = MaxDescription + 1
    /\ StrLen(result.description) = MaxDescription

\* where a call is while it looks for, scrolls to or clicks an element
Trying == {"find", "scrollTo", "click", "scriptClick"}
\* the selectors that name 'see all specifications', first in spec_selectors
SeeAllSelectors == 1..3

\* C19: the selectors are tried in the order of spec_selectors and the
\* elements of a selector in the order find_elements gave them, the next
\* selector only when the elements of this one are used up; an element
\* whose scrollIntoView or script click raises is followed by the next
\* candidate; and once a click went through nothing is looked for,
\* scrolled to or clicked any more, so that a call clicks at most once.
C19_OrderedUntilFirstClick ==
    [][ op' = "product" =>
          /\ clicks' <= 1
          /\ clicks >= 1 => pc' \notin Trying
          /\ pc' \in Trying => selector' \in 1..NumSelectors /\ ~modal_opened'
          /\ pc \in Trying /\ pc' \in Trying \cup {"waitModal"} =>
                \/ selector' = selector /\ elem' = elem
                \/ selector' = selector /\ elem' = elem + 1 /\ elem' <= spec_elements'
                \/ selector' = selector + 1 /\ elem = spec_elements /\ elem' = 0
          /\ pc \in {"scrollTo", "scriptClick"} /\ pc' # "click" /\ clicks' = clicks =>
                /\ pc' \in {"scrollTo", "find", "scroll"}
                /\ pc' = "scrollTo" <=> elem < spec_elements
                /\ pc' = "scroll" <=> elem = spec_elements /\ selector = NumSelectors
    ]_vars

\* C19 witness: the click that went through is on the second element of
\* the first selector without 'see all', after an element failed
C19_Witness ==
    /\ op = "product"
    /\ pc = "waitModal"
    /\ selector \notin SeeAllSelectors /\ selector - 1 \in SeeAllSelectors
    /\ elem = 2
    /\ clicks = 1
    /\ "interact" \in failed

\* the candidate of the patterns on the text of the whole page: the UPC
\* label, then GTIN or EAN, then the label spelled out, then the UPC label
\* with anything but digits before 11 to 14 digits
TextCandidate ==
    FirstFound(<<Pattern(1, page_text), Pattern(2, page_text),
                 Pattern(3, page_text), Pattern(4, page_text)>>)

\* C20 as stated: the UPC is the candidate of the first of four strategies
\* that gives one: the elements of the live page (with modal_opened), the
\* patterns on the page text, the specification and detail blocks, the
\* line search.
C20_FourStrategiesInOrder ==
    Returned /\ op = "product" /\ Extracted =>
        /\ ~modal_opened => live_upc = <<>>
        /\ upc = FirstFound(<<live_upc, TextCandidate, SectionUpc(soup), LineUpc(page_text)>>)
        /\ result.upc = IF upc # <<>> THEN upc ELSE <<"Not available">>

\* C20 amended: the UPC is the candidate of the first of five strategies
\* that gives one: the elements of the live page, the patterns on the page
\* text, the same patterns on the text of the modal and dialog elements of
\* the live page, the specification and detail blocks, the line search;
\* the two strategies on the live page run only with modal_opened.
C20_FiveStrategiesInOrder ==
    Returned /\ op = "product" /\ Extracted =>
        /\ ~modal_opened => live_upc = <<>> /\ modal_upc = <<>>
        /\ upc = FirstFound(<<live_upc, TextCandidate, modal_upc,
                              SectionUpc(soup), LineUpc(page_text)>>)
        /\ result.upc = IF upc # <<>> THEN upc ELSE <<"Not available">>

\* C20 witness: the UPC of the record is the one the modal showed, on a
\* page whose detail block gives another
C20_Witness ==
    /\ Returned
    /\ op = "product"
    /\ Extracted
    /\ modal_opened
    /\ live_upc = <<>>
    /\ TextCandidate = <<>>
    /\ modal_upc = Run("3", 13)
    /\ SectionUpc(soup) = Run("6", 9)
    /\ result.upc = Run("3", 13)

\* the address of an img: src, or data-src when src is missing or empty
SrcOf(img) == IF img.src # <<>> THEN img.src ELSE img.data_src

RECURSIVE FirstOccurrences(_, _)
\* the list with every entry that occurred before it left out
FirstOccurrences(list, kept) ==
    IF list = <<>> THEN kept
    ELSE FirstOccurrences(Tail(list),
            IF \E k \in 1..Len(kept) : kept[k] = Head(list)
            THEN kept ELSE Append(kept, Head(list)))

\* the product images of the page with an address that names the retailer,
\* each address once, in document order
ValidImages(document) ==
    LET imgs == FindAll(document, {"img"}, {<<"product">>})
        srcs == [i \in 1..Len(imgs) |-> SrcOf(imgs[i])]
    IN FirstOccurrences(
          SelectSeq(srcs, LAMBDA s : s # <<>> /\ Contains(s, <<"bestbuy">>)), <<>>)

\* the reference procedure: the valid images, cut to the first ten
ReferenceImages(document) ==
    SubSeq(ValidImages(document), 1, Min(Len(ValidImages(document)), MaxImages))

\* C21: the images of the record returned after the extraction are the
\* product images of the page whose address names the retailer, in document
\* order, each address once, cut to the first ten; so a page with ten or
\* more such addresses gives exactly ten images.
C21_ImagesAreReference ==
    Returned /\ op = "product" /\ Extracted =>
        /\ result.images = ReferenceImages(soup)
        /\ Len(ValidImages(soup)) >= MaxImages => Len(result.images) = MaxImages

\* what the code does on the page of C21's failure: the first ten img
\* elements are the foreign image and nine of the gallery, so nine images
\* are returned of a page with twelve valid ones
C21_CutBeforeFilter ==
    /\ Returned
    /\ op = "product"
    /\ soup = CrowdedGallery \o <<P(PlainBody)>>
    /\ Len(ValidImages(soup)) = MaxImages + 2
    /\ Len(result.images) = MaxImages - 1
    /\ result.images = SubSeq(ReferenceImages(soup), 1, MaxImages - 1)

\* the navigation of the call is over: get returned, and in the list
\* scraper lines 77-83 are behind
Navigated == pc = "wait"
\* a region-confirmation control was looked for
LocatedRegionControl == "find_element" \in called
\* the control was not found, or the click on it raised
RecoveryFailed == "region" \in failed

\* C22: get is issued at most twice in a call; when get has left the
\* browser on an interstitial, the navigation ends with one recovery
\* attempted: the region-confirmation control looked for and clicked, and
\* when that failed, get issued a second time; a failed recovery leaves
\* the status as it is, and the call goes on to read and parse the page.
C22_OneRecoveryOnInterstitial ==
    /\ n.get <= 2
    /\ Navigated /\ landed = "interstitial" =>
          /\ LocatedRegionControl
          /\ n.get = IF RecoveryFailed THEN 2 ELSE 1
    /\ RecoveryFailed /\ failed \cap Escalating = {} =>
          /\ result.status = "error" => result.message = <<"No products found on page">>
          /\ Ended => n.page_source = 1 /\ soup = page_source

\* what the code does instead: get is issued once in a call, whatever the
\* landing; the main scraper never looks for a region control, the list
\* scraper looks for one after every get that returned; and a failure
\* there is swallowed
C22_NavigatesOnce ==
    /\ n.get <= 1
    /\ op = "product" => ~LocatedRegionControl
    /\ op = "listing" /\ Navigated => LocatedRegionControl
    /\ RecoveryFailed /\ failed \cap Escalating = {} =>
          /\ result.status = "error" => result.message = <<"No products found on page">>
          /\ Ended => n.page_source = 1 /\ soup = page_source

\* the main scraper on an interstitial, going on to its wait for the h1
\* with nothing attempted
C22_ProductOnInterstitial ==
    /\ op = "product"
    /\ Navigated
    /\ landed = "interstitial"
    /\ called = {"Chrome", "get"}
    /\ n.get = 1

\* the list scraper on an interstitial, its click on the control failed
\* and no second get
C22_ListingRecoveryFailed ==
    /\ op = "listing"
    /\ Navigated
    /\ landed = "interstitial"
    /\ RecoveryFailed
    /\ n.get = 1

\* the two stock fields of the record
StockPair == <<result.in_stock, result.availability>>
\* where sub first stands in s
FirstAt(s, sub) == SetMin({i \in 1..Len(s) : StartsWithAt(s, sub, i)})

\* C23: in the record of the main scraper in_stock is true exactly when
\* availability is 'In Stock', and the two are (true, 'In Stock'), (false,
\* 'Out of Stock') or (false, 'Availability unknown'); a page whose text,
\* letter case aside, holds both 'in stock' and 'out of stock' gives
\* (true, 'In Stock'), whichever of them stands first.
C23_AvailabilityAgrees ==
    HasProductRecord =>
        /\ result.in_stock <=> result.availability = <<"In Stock">>
        /\ StockPair \in { <<TRUE, <<"In Stock">> >>,
                           <<FALSE, <<"Out of Stock">> >>,
                           <<FALSE, <<"Availability unknown">> >> }
        /\ /\ Extracted
           /\ Contains(Lower(page_text), InStock)
           /\ Contains(Lower(page_text), OutOfStock)
           => StockPair = <<TRUE, <<"In Stock">> >>

\* C23 witness: a returned record (true, 'In Stock') of a page that reads
\* 'OUT OF STOCK' before it reads 'In Stock'
C23_Witness ==
    /\ Returned
    /\ op = "product"
    /\ Extracted
    /\ Contains(Lower(page_text), InStock)
    /\ Contains(Lower(page_text), OutOfStock)
    /\ ~Contains(page_text, InStock)
    /\ FirstAt(Lower(page_text), OutOfStock) < FirstAt(Lower(page_text), InStock)
    /\ StockPair = <<TRUE, <<"In Stock">> >>

\* C23 witness: a returned record (false, 'Out of Stock')
C23_WitnessOut ==
    /\ Returned
    /\ op = "product"
    /\ Contains(Lower(page_text), OutOfStock)
    /\ StockPair = <<FALSE, <<"Out of Stock">> >>

\* the list scraper returned status 'success' with a product found
ListingFound ==
    /\ Returned
    /\ ListingExtracted
    /\ result.status = "success"
    /\ result.link # NotFound

\* C24: when the list scraper returns status 'success' with a product
\* found, full_url is not 'Not found', starts with 'http' and passes the
\* validation of the main scraper: it holds 'bestbuy.com' and '/product/',
\* so that the main scraper called with it does not answer 'Invalid Best
\* Buy product URL'.
C24_FullUrlPassesValidation ==
    ListingFound =>
        /\ result.full_url # NotFound
        /\ StartsWith(result.full_url, <<"http">>)
        /\ ValidProductUrl(result.full_url)

\* the part of C24 the code keeps: full_url is set, starts with 'http' and
\* holds '/product/'; it passes the validation whenever the href of the
\* anchor is relative or names bestbuy.com itself
C24_FullUrlAbsoluteWithProductPath ==
    ListingFound =>
        /\ result.full_url # NotFound
        /\ StartsWith(result.full_url, <<"http">>)
        /\ Contains(result.full_url, ProductPath)
        /\ ~StartsWith(result.link, <<"http">>) \/ Contains(result.link, BestBuyCom)
              => ValidProductUrl(result.full_url)

\* a search page whose first product anchor leads to another site: returned
\* with success, and with a full_url the main scraper rejects
C24_ForeignLink ==
    /\ ListingFound
    /\ StartsWith(result.link, <<"http">>)
    /\ result.full_url = result.link
    /\ ~Contains(result.full_url, BestBuyCom)
    /\ RejectedProductArg(Str(result.full_url))

\* a relative href made absolute, accepted by the main scraper
C24_RelativeLink ==
    /\ ListingFound
    /\ result.full_url = base_url \o result.link
    /\ ValidProductUrl(result.full_url)

====
